---- MODULE Spec2Model ----
(***************************************************************************)
(* Model of src/hbbs_http/account.rs: the OIDC login session manager.      *)
(*                                                                         *)
(* OIDC_SESSION is one process-wide record behind an RwLock.  Every        *)
(* acquisition of the lock is one atomic step of the model; what a thread  *)
(* does between two acquisitions touches only its own locals.  The         *)
(* threads are: the callers of account_auth, the UI calls auth_cancel and  *)
(* get_result (any thread, any time), and the spawned auth_task threads.   *)
(*                                                                         *)
(* Strings that the code inspects (error texts, failed_msg) are sequences  *)
(* of words, so that String::contains is a real substring test.  Option    *)
(* values are sequences of length 0 (None) or 1 (Some).                    *)
(***************************************************************************)
EXTENDS Integers, Sequences, FiniteSets, TLC

\* ------------------------------------------------------------------ bounds

\* Number of account_auth calls made in one run.
MaxFlows == 2
\* The clock of a task is observed only through comparisons with
\* query_timeout; it advances in steps of this many seconds.
ClockStepSecs == 90
\* The count of queries begun with keep_querying false stops here.
MaxLatePolls == 2

\* --------------------------------------------------------------- constants

QUERY_TIMEOUT_SECS == 60 * 3
REQUESTING_ACCOUNT_AUTH == "Requesting account auth"
WAITING_ACCOUNT_AUTH == "Waiting account auth"
LOGIN_ACCOUNT_AUTH == "Login account auth"

\* The literals of auth_task.
NO_AUTHED_OIDC == <<"No", "authed", "oidc", "is", "found">>
INVALID_AUTH_RESPONSE == <<"Invalid", "auth", "response">>
TIMEOUT_MSG == <<"timeout">>
EMPTY == <<>>

None == <<>>
Some(x) == <<x>>

\* ------------------------------------------------------------ data model

\* UserStatus, serialized by serde_repr as its i64 discriminant.
UserStatusRepr(status) ==
    CASE status = "Disabled" -> 0
      [] status = "Normal" -> 1
      [] status = "Unverified" -> -1

\* UserInfo values (settings, whitelist, other), kept as two samples.
UserInfoDefault ==
    [settings |-> [email_verification |-> FALSE, email_alarm_notification |-> FALSE],
     login_device_whitelist |-> <<>>,
     other |-> <<>>]
UserInfoAlarm ==
    [settings |-> [email_verification |-> TRUE, email_alarm_notification |-> TRUE],
     login_device_whitelist |-> <<>>,
     other |-> <<>>]

\* UserPayload values the provider can send.  ser_store_local is
\* #[serde(default)]: absent in the JSON it is false, present it is taken.
UserPayloads ==
    { [name |-> "alice", email |-> Some("alice@example.com"), note |-> None,
       status |-> "Normal", info |-> UserInfoAlarm, is_admin |-> TRUE,
       third_auth_type |-> Some("github"), ser_store_local |-> flag] :
         flag \in BOOLEAN }
    \cup
    { [name |-> "bob", email |-> None, note |-> Some("guest"),
       status |-> "Unverified", info |-> UserInfoDefault, is_admin |-> FALSE,
       third_auth_type |-> None, ser_store_local |-> FALSE] }

AccessTokens == {"tok1", "tok2"}

\* AuthBody values.
AuthBodies ==
    { [access_token |-> t, type |-> "bearer", user |-> u] :
        t \in AccessTokens, u \in UserPayloads }

\* url::Url, already parsed, and its to_string.
UrlToString(u) == u.scheme \o "://" \o u.host \o u.path

\* OidcAuthUrl values.
OidcAuthUrls ==
    { [code |-> "abc", url |-> [scheme |-> "https", host |-> "idp", path |-> "/x"]],
      [code |-> "def", url |-> [scheme |-> "https", host |-> "idp", path |-> "/y"]] }

\* impl Serialize for UserPayload: the sequence of (field, value) emitted.
SerializeMinimal(u) ==
    << <<"name", u.name>>, <<"status", UserStatusRepr(u.status)>> >>
SerializeFull(u) ==
    << <<"name", u.name>>, <<"email", u.email>>, <<"note", u.note>>,
       <<"status", UserStatusRepr(u.status)>>, <<"info", u.info>>,
       <<"is_admin", u.is_admin>>, <<"third_auth_type", u.third_auth_type>> >>

\* serialize without the branch on ser_store_local: always the full shape.
serialize_ignores_flag(u) == SerializeFull(u)

\* impl Serialize for UserPayload: the branch on ser_store_local.
serialize(u) ==
    IF u.ser_store_local THEN SerializeMinimal(u) ELSE SerializeFull(u)

\* String::contains on word sequences: pat occurs as a contiguous run.
contains(s, pat) ==
    \E i \in 0..(Len(s) - Len(pat)) : SubSeq(s, i + 1, i + Len(pat)) = pat

\* HbbHttpResponse<T> or a transport/parse error, as auth and query return
\* it: Ok(Data(v)), Ok(Error(text)), Ok(other shape), Err(text).
Resp(kind, val) == [kind |-> kind, val |-> val]
NoResp == Resp("None", <<>>)

RATE_LIMITED == <<"rate", "limited">>
CONNECTION_REFUSED == <<"connection", "refused">>

AuthResponses ==
    { Resp("Data", h) : h \in OidcAuthUrls }
    \cup { Resp("Error", RATE_LIMITED), Resp("Other", <<>>),
           Resp("Err", CONNECTION_REFUSED) }

QueryErrors ==
    { NO_AUTHED_OIDC,
      <<"Error:">> \o NO_AUTHED_OIDC \o <<"yet">>,
      <<"No", "authed", "oidc">>,
      RATE_LIMITED }

QueryResponses ==
    { Resp("Data", b) : b \in AuthBodies }
    \cup { Resp("Error", e) : e \in QueryErrors }
    \cup { Resp("Other", <<>>), Resp("Err", CONNECTION_REFUSED) }

\* ----------------------------------------------------------------- state

CallerIds == {1, 2}
FlowIds == 1..MaxFlows

VARIABLES
    session,        \* OIDC_SESSION: the OidcSession record
    local_config,   \* LocalConfig: option name -> value
    cpc,            \* caller thread -> its position in account_auth
    cflow,          \* caller thread -> the flow its account_auth call starts
    cremember,      \* caller thread -> remember_me of the call
    nflows,         \* account_auth calls made so far
    tasks,          \* flow -> the auth_task thread spawned for it
    cur,            \* flow whose before_task reset the session last
    writer,         \* session field -> flow that wrote it last (history)
    snapshot,       \* the AuthResult get_result returned, if it was the last step
    ser_user,       \* a UserPayload value handed to serde (codec runs only)
    ser_out         \* the last serialization: the value as it was, and its fields

vars == <<session, local_config, cpc, cflow, cremember, nflows, tasks, cur,
          writer, snapshot, ser_user, ser_out>>

\* OidcSession::new
new ==
    [state_msg |-> REQUESTING_ACCOUNT_AUTH,
     failed_msg |-> EMPTY,
     code_url |-> None,
     auth_body |-> None,
     keep_querying |-> FALSE,
     running |-> FALSE,
     query_timeout |-> QUERY_TIMEOUT_SECS]

\* reset that leaves the url of the previous flow in place.
reset_keeps_code_url(s) ==
    [s EXCEPT !.state_msg = REQUESTING_ACCOUNT_AUTH,
              !.failed_msg = EMPTY,
              !.keep_querying = TRUE,
              !.running = FALSE,
              !.auth_body = None]

\* OidcSession::reset
reset(s) ==
    [s EXCEPT !.state_msg = REQUESTING_ACCOUNT_AUTH,
              !.failed_msg = EMPTY,
              !.keep_querying = TRUE,
              !.running = FALSE,
              !.code_url = None,
              !.auth_body = None]

\* before_task that does not mark the session as running.
before_task_not_running(s) == reset(s)

\* OidcSession::before_task
before_task(s) == [reset(s) EXCEPT !.running = TRUE]

\* OidcSession::after_task
after_task(s) == [s EXCEPT !.running = FALSE]

\* OidcSession::set_state
set_state(s, state_msg, failed_msg) ==
    [s EXCEPT !.state_msg = state_msg, !.failed_msg = failed_msg]

\* get_result_ that reports the code of the handle in place of its url.
get_result_code(s) ==
    [state_msg |-> s.state_msg,
     failed_msg |-> s.failed_msg,
     url |-> IF s.code_url = None THEN None ELSE Some(s.code_url[1].code),
     auth_body |-> s.auth_body]

\* OidcSession::get_result_
get_result_(s) ==
    [state_msg |-> s.state_msg,
     failed_msg |-> s.failed_msg,
     url |-> IF s.code_url = None THEN None
             ELSE Some(UrlToString(s.code_url[1].url)),
     auth_body |-> s.auth_body]

\* LocalConfig::set_option
set_option(cfg, k, v) == [cfg EXCEPT ![k] = v]

\* An auth_task thread.  Its position and locals:
\*   pc           where the thread stands ("none": not spawned, "done": ended)
\*   remember_me  the argument of the call
\*   code_url     the local bound by the match on the auth response
\*   resp         the last answer of auth or query
\*   auth_body    the local `mut auth_body` of the Data arm
\*   elapsed      begin.elapsed(), in seconds
\*   query_code   the code the last query was sent with
\* and, as history, what it did:
\*   ret          the exit it took: "auth_failed", "login", "query_failed",
\*                "timeout" (set by the check after the loop), "stopped"
\*   polled       a query was made
\*   in_budget    the last answer of query arrived with elapsed < query_timeout
\*   cancelled    auth_cancel came while it was alive in the Waiting phase
\*                with no failure set
\*   saved        the LocalConfig options it has written, in order
\*   late_polls   the queries it began with keep_querying already false,
\*                counted up to MaxLatePolls
\*   cancelled_in_auth   auth_cancel came while its call of Self::auth was
\*                in flight
\* NoTask is a thread that was never spawned.
NoTask ==
    [pc |-> "none", remember_me |-> FALSE, code_url |-> None, resp |-> NoResp,
     auth_body |-> None, elapsed |-> 0, ret |-> "", polled |-> FALSE,
     query_code |-> "",
     in_budget |-> FALSE, cancelled |-> FALSE, saved |-> <<>>,
     late_polls |-> 0, cancelled_in_auth |-> FALSE]

NoWriter == [state_msg |-> 0, failed_msg |-> 0, code_url |-> 0, auth_body |-> 0]

InitCallers(active) ==
    /\ session = new
    /\ local_config = [access_token |-> "", user_info |-> <<>>]
    /\ cpc = [c \in CallerIds |-> IF c \in active THEN "idle" ELSE "off"]
    /\ cflow = [c \in CallerIds |-> 0]
    /\ cremember = [c \in CallerIds |-> FALSE]
    /\ nflows = 0
    /\ tasks = [f \in FlowIds |-> NoTask]
    /\ cur = 0
    /\ writer = NoWriter
    /\ snapshot = None

\* One thread calls account_auth, one call after the other.
Init == InitCallers({1}) /\ ser_user = None /\ ser_out = None

\* ------------------------------------------------------------ decisions

\* wait_stop_querying that does not wait.
stop_waiting_at_once(s) == TRUE

\* wait_stop_querying: the loop ends when `running` is read false.
stop_waiting(s) == ~s.running

\* The while condition without the flag.
keep_looping_ignores_flag(s, elapsed) == elapsed < s.query_timeout

\* The while condition without the budget.
keep_looping_no_budget(s, elapsed) == s.keep_querying

\* auth_task, the while condition of the polling loop.
keep_looping(s, elapsed) == s.keep_querying /\ elapsed < s.query_timeout

\* The check after the loop, taken whatever the clock says.
timed_out_always(s, elapsed) == TRUE

\* The check after the loop with > in place of >=.
timed_out_strict(s, elapsed) == elapsed > s.query_timeout

\* auth_task, the check after the loop.
timed_out(s, elapsed) == elapsed >= s.query_timeout

\* The failing arms without the literal of the unrecognized envelope.
auth_failure_raw(resp) == resp.val

\* auth_task, the three failing arms of the match on the auth response:
\* the text handed to set_state.
auth_failure(resp) ==
    CASE resp.kind = "Error" -> resp.val
      [] resp.kind = "Other" -> INVALID_AUTH_RESPONSE
      [] resp.kind = "Err" -> resp.val

\* The Error arm matching on the first three words only.
keep_waiting_short(err) == contains(err, <<"No", "authed", "oidc">>)

\* The Error arm with == in place of contains.
keep_waiting_exact(err) == err = NO_AUTHED_OIDC

\* auth_task, the Error arm of the match on the query response.
keep_waiting(err) == contains(err, NO_AUTHED_OIDC)

\* The Data arm without the remember_me block.
after_data_no_save(remember_me) == "set_login"

\* auth_task, the Data arm: what follows the response.
after_data(remember_me) == IF remember_me THEN "save_token" ELSE "set_login"

\* begin.elapsed() of a task after some more time has passed.
advance(elapsed) == elapsed + ClockStepSecs

\* ------------------------------------------------------------- history

Alive(f) == tasks[f].pc \notin {"none", "done"}

Wrote(fields, f) ==
    writer' = [k \in DOMAIN writer |-> IF k \in fields THEN f ELSE writer[k]]

\* auth_cancel takes effect on keep_querying; the history notes on the
\* live task of the current flow that it came in the Waiting phase with no
\* failure set, and on a task whose call of Self::auth is in flight that it
\* came then.
NoteCancel ==
    [f \in FlowIds |->
        IF /\ f = cur
           /\ Alive(f)
           /\ session.state_msg = WAITING_ACCOUNT_AUTH
           /\ session.failed_msg = EMPTY
        THEN [tasks[f] EXCEPT !.cancelled = TRUE]
        ELSE IF tasks[f].pc = "auth"
        THEN [tasks[f] EXCEPT !.cancelled_in_auth = TRUE]
        ELSE tasks[f]]

\* A thread that has ended has no locals; what it did is remembered until the
\* next flow resets the session.
Finished == [NoTask EXCEPT !.pc = "done"]
Forget == [f \in FlowIds |-> IF tasks[f].pc = "done" THEN Finished ELSE tasks[f]]

\* --------------------------------------------------- account_auth (caller)

\* A thread enters account_auth(op, id, uuid, remember_me).
account_auth(c) ==
    /\ cpc[c] = "idle"
    /\ nflows < MaxFlows
    /\ \E remember_me \in BOOLEAN :
         cremember' = [cremember EXCEPT ![c] = remember_me]
    /\ nflows' = nflows + 1
    /\ cflow' = [cflow EXCEPT ![c] = nflows + 1]
    /\ cpc' = [cpc EXCEPT ![c] = "auth_cancel"]
    /\ snapshot' = None
    /\ UNCHANGED <<ser_user, ser_out>>
    /\ UNCHANGED <<session, local_config, tasks, cur, writer>>

\* Self::auth_cancel() inside account_auth.
caller_auth_cancel(c) ==
    /\ cpc[c] = "auth_cancel"
    /\ session' = [session EXCEPT !.keep_querying = FALSE]
    /\ tasks' = NoteCancel
    /\ cpc' = [cpc EXCEPT ![c] = "wait_stop_querying"]
    /\ snapshot' = None
    /\ UNCHANGED <<ser_user, ser_out>>
    /\ UNCHANGED <<local_config, cflow, cremember, nflows, cur, writer>>

\* Self::wait_stop_querying(): sleeps while `running` is read true.
wait_stop_querying(c) ==
    /\ cpc[c] = "wait_stop_querying"
    /\ stop_waiting(session)
    /\ cpc' = [cpc EXCEPT ![c] = "before_task"]
    /\ snapshot' = None
    /\ UNCHANGED <<ser_user, ser_out>>
    /\ UNCHANGED <<session, local_config, cflow, cremember, nflows, tasks, cur,
                   writer>>

\* OIDC_SESSION.write().unwrap().before_task()
caller_before_task(c) ==
    /\ cpc[c] = "before_task"
    /\ session' = before_task(session)
    /\ cur' = cflow[c]
    /\ Wrote({"state_msg", "failed_msg", "code_url", "auth_body"}, cflow[c])
    /\ tasks' = Forget
    /\ cpc' = [cpc EXCEPT ![c] = "spawn"]
    /\ snapshot' = None
    /\ UNCHANGED <<ser_user, ser_out>>
    /\ UNCHANGED <<local_config, cflow, cremember, nflows>>

\* std::thread::spawn: the task starts at its call of Self::auth.
spawn(c) ==
    /\ cpc[c] = "spawn"
    /\ tasks' = [tasks EXCEPT ![cflow[c]] =
                   [NoTask EXCEPT !.pc = "auth", !.remember_me = cremember[c]]]
    /\ cpc' = [cpc EXCEPT ![c] = "idle"]
    /\ snapshot' = None
    /\ UNCHANGED <<ser_user, ser_out>>
    /\ UNCHANGED <<session, local_config, cflow, cremember, nflows, cur, writer>>

\* ------------------------------------------------------------ UI calls

\* auth_cancel that also wipes the failure text.
auth_cancel_clears_failure ==
    /\ session' = [session EXCEPT !.keep_querying = FALSE, !.failed_msg = EMPTY]
    /\ tasks' = NoteCancel
    /\ snapshot' = None
    /\ UNCHANGED <<ser_user, ser_out>>
    /\ UNCHANGED <<local_config, cpc, cflow, cremember, nflows, cur, writer>>

\* pub fn auth_cancel, from any thread.
auth_cancel ==
    /\ session' = [session EXCEPT !.keep_querying = FALSE]
    /\ tasks' = NoteCancel
    /\ snapshot' = None
    /\ UNCHANGED <<ser_user, ser_out>>
    /\ UNCHANGED <<local_config, cpc, cflow, cremember, nflows, cur, writer>>

\* pub fn get_result, from any thread.
get_result ==
    /\ snapshot' = Some(get_result_(session))
    /\ UNCHANGED <<ser_user, ser_out>>
    /\ UNCHANGED <<session, local_config, cpc, cflow, cremember, nflows, tasks,
                   cur, writer>>

\* ---------------------------------------------------- auth_task (thread)

SetTask(f, t) == tasks' = [tasks EXCEPT ![f] = t]

\* Self::auth(&op, &id, &uuid): the request is sent and its answer arrives.
task_auth(f) ==
    /\ tasks[f].pc = "auth"
    /\ \E r \in AuthResponses :
         SetTask(f, [tasks[f] EXCEPT !.resp = r, !.pc = "auth_match"])
    /\ snapshot' = None
    /\ UNCHANGED <<ser_user, ser_out>>
    /\ UNCHANGED <<session, local_config, cpc, cflow, cremember, nflows, cur,
                   writer>>

\* match auth_request_res: Data binds code_url and goes on to
\* set_state(WAITING_ACCOUNT_AUTH, ""); the other arms set the failure and
\* return.
task_auth_match(f) ==
    /\ tasks[f].pc = "auth_match"
    /\ IF tasks[f].resp.kind = "Data"
       THEN /\ session' = set_state(session, WAITING_ACCOUNT_AUTH, EMPTY)
            /\ SetTask(f, [tasks[f] EXCEPT !.code_url = Some(tasks[f].resp.val),
                                           !.pc = "store_code_url"])
       ELSE /\ session' = set_state(session, REQUESTING_ACCOUNT_AUTH,
                                    auth_failure(tasks[f].resp))
            /\ SetTask(f, [tasks[f] EXCEPT !.ret = "auth_failed", !.pc = "after_task"])
    /\ Wrote({"state_msg", "failed_msg"}, f)
    /\ snapshot' = None
    /\ UNCHANGED <<ser_user, ser_out>>
    /\ UNCHANGED <<local_config, cpc, cflow, cremember, nflows, cur>>

\* OIDC_SESSION.write().unwrap().code_url = Some(code_url.clone());
\* then begin = Instant::now() and the read of query_timeout.
task_store_code_url(f) ==
    /\ tasks[f].pc = "store_code_url"
    /\ session' = [session EXCEPT !.code_url = tasks[f].code_url]
    /\ SetTask(f, [tasks[f] EXCEPT !.elapsed = 0, !.pc = "while"])
    /\ Wrote({"code_url"}, f)
    /\ snapshot' = None
    /\ UNCHANGED <<ser_user, ser_out>>
    /\ UNCHANGED <<local_config, cpc, cflow, cremember, nflows, cur>>

\* while keep_querying && begin.elapsed() < query_timeout
task_while(f) ==
    /\ tasks[f].pc = "while"
    /\ SetTask(f, [tasks[f] EXCEPT !.pc =
                     IF keep_looping(session, tasks[f].elapsed) THEN "query"
                     ELSE "check_timeout"])
    /\ snapshot' = None
    /\ UNCHANGED <<ser_user, ser_out>>
    /\ UNCHANGED <<session, local_config, cpc, cflow, cremember, nflows, cur,
                   writer>>

\* Self::query(&code_url.code, &id, &uuid): the request is sent and its
\* answer arrives, within the budget or after it.
task_query(f) ==
    /\ tasks[f].pc = "query"
    /\ \E r \in QueryResponses :
         SetTask(f, [tasks[f] EXCEPT
                       !.resp = r,
                       !.polled = TRUE,
                       !.query_code = tasks[f].code_url[1].code,
                       !.in_budget = (tasks[f].elapsed < session.query_timeout),
                       !.late_polls =
                           IF ~session.keep_querying /\ @ < MaxLatePolls
                           THEN @ + 1 ELSE @,
                       !.pc = "query_match"])
    /\ snapshot' = None
    /\ UNCHANGED <<ser_user, ser_out>>
    /\ UNCHANGED <<session, local_config, cpc, cflow, cremember, nflows, cur,
                   writer>>

\* The match on the query response as strict as the one on the auth
\* response: every answer but Data ends the flow with a failure.
task_query_match_strict(f) ==
    /\ tasks[f].pc = "query_match"
    /\ LET r == tasks[f].resp IN
       IF r.kind = "Data"
       THEN /\ SetTask(f, [tasks[f] EXCEPT !.auth_body = Some(r.val),
                                           !.pc = after_data(tasks[f].remember_me)])
            /\ UNCHANGED <<session, writer>>
       ELSE IF r.kind = "Error" /\ keep_waiting(r.val)
       THEN /\ SetTask(f, [tasks[f] EXCEPT !.pc = "sleep"])
            /\ UNCHANGED <<session, writer>>
       ELSE /\ session' = set_state(session, WAITING_ACCOUNT_AUTH,
                                    auth_failure(r))
            /\ SetTask(f, [tasks[f] EXCEPT !.ret = "query_failed", !.pc = "after_task"])
            /\ Wrote({"state_msg", "failed_msg"}, f)
    /\ snapshot' = None
    /\ UNCHANGED <<ser_user, ser_out>>
    /\ UNCHANGED <<local_config, cpc, cflow, cremember, nflows, cur>>

\* The match on the query response with `break` in place of `return` in
\* the fatal Error arm: the check after the loop still runs.
task_query_match_break(f) ==
    /\ tasks[f].pc = "query_match"
    /\ LET r == tasks[f].resp IN
       IF r.kind = "Data"
       THEN /\ SetTask(f, [tasks[f] EXCEPT !.auth_body = Some(r.val),
                                           !.pc = after_data(tasks[f].remember_me)])
            /\ UNCHANGED <<session, writer>>
       ELSE IF r.kind = "Error" /\ ~keep_waiting(r.val)
       THEN /\ session' = set_state(session, WAITING_ACCOUNT_AUTH, r.val)
            /\ SetTask(f, [tasks[f] EXCEPT !.pc = "check_timeout"])
            /\ Wrote({"state_msg", "failed_msg"}, f)
       ELSE /\ SetTask(f, [tasks[f] EXCEPT !.pc = "sleep"])
            /\ UNCHANGED <<session, writer>>
    /\ snapshot' = None
    /\ UNCHANGED <<ser_user, ser_out>>
    /\ UNCHANGED <<local_config, cpc, cflow, cremember, nflows, cur>>

\* match on the query response, up to the first access outside the thread.
task_query_match(f) ==
    /\ tasks[f].pc = "query_match"
    /\ LET r == tasks[f].resp IN
       IF r.kind = "Data"
       THEN /\ SetTask(f, [tasks[f] EXCEPT !.auth_body = Some(r.val),
                                           !.pc = after_data(tasks[f].remember_me)])
            /\ UNCHANGED <<session, writer>>
       ELSE IF r.kind = "Error" /\ ~keep_waiting(r.val)
       THEN /\ session' = set_state(session, WAITING_ACCOUNT_AUTH, r.val)
            /\ SetTask(f, [tasks[f] EXCEPT !.ret = "query_failed", !.pc = "after_task"])
            /\ Wrote({"state_msg", "failed_msg"}, f)
       ELSE /\ SetTask(f, [tasks[f] EXCEPT !.pc = "sleep"])
            /\ UNCHANGED <<session, writer>>
    /\ snapshot' = None
    /\ UNCHANGED <<ser_user, ser_out>>
    /\ UNCHANGED <<local_config, cpc, cflow, cremember, nflows, cur>>

\* The first write of the remember_me block without the line that sets
\* ser_store_local.
task_save_token_no_flag(f) ==
    /\ tasks[f].pc = "save_token"
    /\ LET body == tasks[f].auth_body[1] IN
       /\ local_config' = set_option(local_config, "access_token", body.access_token)
       /\ SetTask(f, [tasks[f] EXCEPT
                        !.saved = Append(tasks[f].saved, "access_token"),
                        !.pc = "save_user"])
    /\ snapshot' = None
    /\ UNCHANGED <<ser_user, ser_out>>
    /\ UNCHANGED <<session, cpc, cflow, cremember, nflows, cur, writer>>

\* LocalConfig::set_option("access_token", auth_body.access_token.clone());
\* auth_body.user.ser_store_local = true;
task_save_token(f) ==
    /\ tasks[f].pc = "save_token"
    /\ LET body == tasks[f].auth_body[1] IN
       /\ local_config' = set_option(local_config, "access_token", body.access_token)
       /\ SetTask(f, [tasks[f] EXCEPT
                        !.auth_body = Some([body EXCEPT !.user.ser_store_local = TRUE]),
                        !.saved = Append(tasks[f].saved, "access_token"),
                        !.pc = "save_user"])
    /\ snapshot' = None
    /\ UNCHANGED <<ser_user, ser_out>>
    /\ UNCHANGED <<session, cpc, cflow, cremember, nflows, cur, writer>>

\* LocalConfig::set_option("user_info", serde_json::to_string(&auth_body.user));
\* auth_body.user.ser_store_local = false;
task_save_user(f) ==
    /\ tasks[f].pc = "save_user"
    /\ LET body == tasks[f].auth_body[1] IN
       /\ local_config' = set_option(local_config, "user_info", serialize(body.user))
       /\ SetTask(f, [tasks[f] EXCEPT
                        !.auth_body = Some([body EXCEPT !.user.ser_store_local = FALSE]),
                        !.saved = Append(tasks[f].saved, "user_info"),
                        !.pc = "set_login"])
    /\ snapshot' = None
    /\ UNCHANGED <<ser_user, ser_out>>
    /\ UNCHANGED <<session, cpc, cflow, cremember, nflows, cur, writer>>

\* OIDC_SESSION.write().unwrap().set_state(LOGIN_ACCOUNT_AUTH, "")
task_set_login(f) ==
    /\ tasks[f].pc = "set_login"
    /\ session' = set_state(session, LOGIN_ACCOUNT_AUTH, EMPTY)
    /\ SetTask(f, [tasks[f] EXCEPT !.pc = "store_auth_body"])
    /\ Wrote({"state_msg", "failed_msg"}, f)
    /\ snapshot' = None
    /\ UNCHANGED <<ser_user, ser_out>>
    /\ UNCHANGED <<local_config, cpc, cflow, cremember, nflows, cur>>

\* OIDC_SESSION.write().unwrap().auth_body = Some(auth_body); return
task_store_auth_body(f) ==
    /\ tasks[f].pc = "store_auth_body"
    /\ session' = [session EXCEPT !.auth_body = tasks[f].auth_body]
    /\ SetTask(f, [tasks[f] EXCEPT !.ret = "login", !.pc = "after_task"])
    /\ Wrote({"auth_body"}, f)
    /\ snapshot' = None
    /\ UNCHANGED <<ser_user, ser_out>>
    /\ UNCHANGED <<local_config, cpc, cflow, cremember, nflows, cur>>

\* Self::sleep(QUERY_INTERVAL_SECS), then back to the loop condition.
task_sleep(f) ==
    /\ tasks[f].pc = "sleep"
    /\ SetTask(f, [tasks[f] EXCEPT !.pc = "while"])
    /\ snapshot' = None
    /\ UNCHANGED <<ser_user, ser_out>>
    /\ UNCHANGED <<session, local_config, cpc, cflow, cremember, nflows, cur,
                   writer>>

\* if begin.elapsed() >= query_timeout { set_state(WAITING, "timeout") }
task_check_timeout(f) ==
    /\ tasks[f].pc = "check_timeout"
    /\ IF timed_out(session, tasks[f].elapsed)
       THEN /\ session' = set_state(session, WAITING_ACCOUNT_AUTH, TIMEOUT_MSG)
            /\ SetTask(f, [tasks[f] EXCEPT !.ret = "timeout", !.pc = "after_task"])
            /\ Wrote({"state_msg", "failed_msg"}, f)
       ELSE /\ SetTask(f, [tasks[f] EXCEPT !.ret = "stopped", !.pc = "after_task"])
            /\ UNCHANGED <<session, writer>>
    /\ snapshot' = None
    /\ UNCHANGED <<ser_user, ser_out>>
    /\ UNCHANGED <<local_config, cpc, cflow, cremember, nflows, cur>>

\* OIDC_SESSION.write().unwrap().after_task(), the end of the thread.
task_after_task(f) ==
    /\ tasks[f].pc = "after_task"
    /\ session' = after_task(session)
    /\ SetTask(f, [tasks[f] EXCEPT !.pc = "done"])
    /\ snapshot' = None
    /\ UNCHANGED <<ser_user, ser_out>>
    /\ UNCHANGED <<local_config, cpc, cflow, cremember, nflows, cur, writer>>

\* Time passes for a task between begin = Instant::now() and its end.  Once
\* the budget is used up, later readings of the clock compare alike.
Polling(f) ==
    tasks[f].pc \in {"while", "query", "query_match", "save_token", "save_user",
                     "set_login", "store_auth_body", "sleep", "check_timeout",
                     "after_task"}

tick(f) ==
    /\ Polling(f)
    /\ tasks[f].elapsed < QUERY_TIMEOUT_SECS
    /\ SetTask(f, [tasks[f] EXCEPT !.elapsed = advance(tasks[f].elapsed)])
    /\ snapshot' = None
    /\ UNCHANGED <<ser_user, ser_out>>
    /\ UNCHANGED <<session, local_config, cpc, cflow, cremember, nflows, cur,
                   writer>>

\* ------------------------------------------------------------ the codec

\* UserPayload values over every field: both names, each Option absent and
\* present, every UserStatus, both UserInfo samples, both flags.
SerUsers ==
    { [name |-> n, email |-> e, note |-> o, status |-> st, info |-> i,
       is_admin |-> a, third_auth_type |-> t, ser_store_local |-> flag] :
        n \in {"alice", "bob"}, e \in {None, Some("alice@example.com")},
        o \in {None, Some("guest")},
        st \in {"Disabled", "Normal", "Unverified"},
        i \in {UserInfoDefault, UserInfoAlarm}, a \in BOOLEAN,
        t \in {None, Some("github")}, flag \in BOOLEAN }

FlowUnchanged ==
    UNCHANGED <<session, local_config, cpc, cflow, cremember, nflows, tasks, cur,
                writer, snapshot>>

\* auth_body.user.ser_store_local = true / = false
ser_set_store_local ==
    /\ ser_user # None
    /\ \E flag \in BOOLEAN :
         ser_user' = Some([ser_user[1] EXCEPT !.ser_store_local = flag])
    /\ UNCHANGED ser_out
    /\ FlowUnchanged

\* serde_json::to_string(&user)
ser_to_string ==
    /\ ser_user # None
    /\ ser_out' = Some([user |-> ser_user[1], fields |-> serialize(ser_user[1])])
    /\ UNCHANGED ser_user
    /\ FlowUnchanged

InitSer == InitCallers({1}) /\ ser_user \in {Some(u) : u \in SerUsers} /\ ser_out = None

NextSer == ser_set_store_local \/ ser_to_string

\* The codec alone: a UserPayload, its flag set and unset, serialized.
SpecSer == InitSer /\ [][NextSer]_vars

\* --------------------------------------------------------- specification

Next ==
    \/ \E c \in CallerIds : account_auth(c)
    \/ \E c \in CallerIds : caller_auth_cancel(c)
    \/ \E c \in CallerIds : wait_stop_querying(c)
    \/ \E c \in CallerIds : caller_before_task(c)
    \/ \E c \in CallerIds : spawn(c)
    \/ auth_cancel
    \/ get_result
    \/ \E f \in FlowIds : task_auth(f)
    \/ \E f \in FlowIds : task_auth_match(f)
    \/ \E f \in FlowIds : task_store_code_url(f)
    \/ \E f \in FlowIds : task_while(f)
    \/ \E f \in FlowIds : task_query(f)
    \/ \E f \in FlowIds : task_query_match(f)
    \/ \E f \in FlowIds : task_save_token(f)
    \/ \E f \in FlowIds : task_save_user(f)
    \/ \E f \in FlowIds : task_set_login(f)
    \/ \E f \in FlowIds : task_store_auth_body(f)
    \/ \E f \in FlowIds : task_sleep(f)
    \/ \E f \in FlowIds : task_check_timeout(f)
    \/ \E f \in FlowIds : task_after_task(f)
    \/ \E f \in FlowIds : tick(f)

Spec == Init /\ [][Next]_vars

\* Two threads call account_auth, each in its own time.
InitConc == InitCallers({1, 2}) /\ ser_user = None /\ ser_out = None

\* The steps of the two calls and of the tasks they spawn, on their own: no
\* call from the UI, and each task runs from begin to its end before its
\* clock has advanced.
NextConc ==
    \/ \E c \in CallerIds : account_auth(c)
    \/ \E c \in CallerIds : caller_auth_cancel(c)
    \/ \E c \in CallerIds : wait_stop_querying(c)
    \/ \E c \in CallerIds : caller_before_task(c)
    \/ \E c \in CallerIds : spawn(c)
    \/ \E f \in FlowIds : task_auth(f)
    \/ \E f \in FlowIds : task_auth_match(f)
    \/ \E f \in FlowIds : task_store_code_url(f)
    \/ \E f \in FlowIds : task_while(f)
    \/ \E f \in FlowIds : task_query(f)
    \/ \E f \in FlowIds : task_query_match(f)
    \/ \E f \in FlowIds : task_save_token(f)
    \/ \E f \in FlowIds : task_save_user(f)
    \/ \E f \in FlowIds : task_set_login(f)
    \/ \E f \in FlowIds : task_store_auth_body(f)
    \/ \E f \in FlowIds : task_sleep(f)
    \/ \E f \in FlowIds : task_check_timeout(f)
    \/ \E f \in FlowIds : task_after_task(f)

SpecConc == InitConc /\ [][NextConc]_vars

\* The steps of one auth_task thread, and of one call of account_auth once
\* it is entered.
TaskStep(f) ==
    \/ task_auth(f) \/ task_auth_match(f) \/ task_store_code_url(f)
    \/ task_while(f) \/ task_query(f) \/ task_query_match(f)
    \/ task_save_token(f) \/ task_save_user(f) \/ task_set_login(f)
    \/ task_store_auth_body(f) \/ task_sleep(f) \/ task_check_timeout(f)
    \/ task_after_task(f)

CallerStep(c) ==
    \/ caller_auth_cancel(c) \/ wait_stop_querying(c)
    \/ caller_before_task(c) \/ spawn(c)

\* Fair scheduling: a thread that can take a step takes one (each network
\* call returns, each lock is granted, each sleep ends), and time advances.
\* Nothing obliges anyone to call account_auth, auth_cancel or get_result.
FairSpec ==
    /\ Spec
    /\ \A f \in FlowIds : WF_vars(TaskStep(f)) /\ WF_vars(tick(f))
    /\ \A c \in CallerIds : WF_vars(CallerStep(c))

\* ----------------------------------------------------------- properties

\* What get_result would return in the present state.
Status == get_result_(session)

Exited(f) == tasks[f].pc = "done"

\* An AuthBody without its serialization helper flag.
Data(b) == [b EXCEPT !.user.ser_store_local = FALSE]

\* C1: at most one auth_task thread exists at any time, from its spawn to
\* the end of after_task; a caller that is past wait_stop_querying, about to
\* reset the session or to spawn, finds no task alive; and `running` is true
\* as long as a task is alive.
C1_SingleTask ==
    /\ Cardinality({f \in FlowIds : Alive(f)}) <= 1
    /\ \A c \in CallerIds :
         cpc[c] \in {"before_task", "spawn"} => \A f \in FlowIds : ~Alive(f)
    /\ \A f \in FlowIds : Alive(f) => session.running

C1_Witness ==
    \E f, g \in FlowIds : f < g /\ Exited(f) /\ Alive(g) /\ tasks[g].polled

\* C2: in every state, what get_result returns has auth_body present if and
\* only if its state_msg is LOGIN_ACCOUNT_AUTH.
C2_ResultIffLoggedIn ==
    (Status.auth_body # None) <=> (Status.state_msg = LOGIN_ACCOUNT_AUTH)

\* C3: a flow started with remember_me writes access_token and user_info
\* to LocalConfig once each, in that order, and both writes are done, with
\* the values of the bundle, in every state where state_msg is
\* LOGIN_ACCOUNT_AUTH.
C3_PersistedBeforeLoggedIn ==
    \A f \in FlowIds :
      /\ tasks[f].saved \in {<<>>, <<"access_token">>, <<"access_token", "user_info">>}
      /\ (f = cur /\ tasks[f].remember_me /\ Status.state_msg = LOGIN_ACCOUNT_AUTH)
           => /\ tasks[f].saved = <<"access_token", "user_info">>
              /\ tasks[f].pc \in {"store_auth_body", "after_task", "done"}
              /\ local_config.access_token = tasks[f].resp.val.access_token
              /\ local_config.user_info = SerializeMinimal(tasks[f].resp.val.user)

C3_Witness ==
    \E f \in FlowIds :
      /\ f = cur /\ tasks[f].remember_me /\ tasks[f].pc = "store_auth_body"
      /\ Status.state_msg = LOGIN_ACCOUNT_AUTH

\* C4 as stated: once the task of a flow that was cancelled in the Waiting
\* phase with no failure set has ended, get_result shows an empty failed_msg
\* and no auth_body.
C4_CancelEndsSilently ==
    \A f \in FlowIds :
      (f = cur /\ Exited(f) /\ tasks[f].cancelled)
        => (Status.failed_msg = EMPTY /\ Status.auth_body = None)

\* C4 amended: the same, provided the poll in flight at the cancellation, if
\* any, brings neither an AuthBody nor a fatal provider error, and the task
\* ends before the query_timeout budget is used up.
C4_CancelEndsSilentlyUnlessPollOrTimeout ==
    \A f \in FlowIds :
      (/\ f = cur /\ Exited(f) /\ tasks[f].cancelled
       /\ tasks[f].ret \notin {"login", "query_failed"}
       /\ tasks[f].elapsed < session.query_timeout)
        => /\ Status.state_msg = WAITING_ACCOUNT_AUTH
           /\ Status.failed_msg = EMPTY
           /\ Status.auth_body = None

C4_Witness ==
    \E f \in FlowIds :
      /\ f = cur /\ Exited(f) /\ tasks[f].cancelled /\ tasks[f].polled
      /\ tasks[f].ret = "stopped" /\ tasks[f].elapsed < session.query_timeout
      /\ Status.failed_msg = EMPTY

\* C5 as stated: a flow that polled, was not cancelled, met no fatal provider
\* error and had no poll succeed within the query_timeout budget ends, once
\* the budget is used up, with failed_msg "timeout" and no auth_body.
C5_NoSuccessInBudgetIsTimeout ==
    \A f \in FlowIds :
      (/\ f = cur /\ Exited(f) /\ tasks[f].polled
       /\ session.keep_querying
       /\ tasks[f].ret # "query_failed"
       /\ tasks[f].elapsed >= session.query_timeout
       /\ ~(tasks[f].ret = "login" /\ tasks[f].in_budget))
        => (Status.failed_msg = TIMEOUT_MSG /\ Status.auth_body = None)

\* C5 amended: a flow that began polling, was not cancelled and had no poll
\* bring an AuthBody or a fatal provider error, at any time, ends with
\* state_msg WAITING_ACCOUNT_AUTH, failed_msg "timeout" and no auth_body.
C5_NoResultAtAllIsTimeout ==
    \A f \in FlowIds :
      (/\ f = cur /\ Exited(f) /\ tasks[f].code_url # None
       /\ session.keep_querying
       /\ tasks[f].ret \notin {"login", "query_failed"})
        => /\ Status.state_msg = WAITING_ACCOUNT_AUTH
           /\ Status.failed_msg = TIMEOUT_MSG
           /\ Status.auth_body = None

C5_Witness ==
    \E f \in FlowIds :
      /\ f = cur /\ Exited(f) /\ tasks[f].polled /\ session.keep_querying
      /\ tasks[f].ret = "timeout" /\ Status.failed_msg = TIMEOUT_MSG

\* C6: the step of a task that handles a query response Error(err) with err
\* containing "No authed oidc is found" changes nothing in the session and
\* takes the task to its sleep, and the step after the sleep takes it back
\* to the loop condition.
C6_NotAuthedYetKeepsPolling ==
    [][\A f \in FlowIds :
         /\ (/\ tasks[f].pc = "query_match"
             /\ tasks[f].resp.kind = "Error"
             /\ contains(tasks[f].resp.val, NO_AUTHED_OIDC)
             /\ tasks'[f].pc # "query_match")
              => (tasks'[f].pc = "sleep" /\ session' = session)
         /\ (tasks[f].pc = "sleep" /\ tasks'[f].pc # "sleep")
              => (tasks'[f].pc = "while" /\ session' = session)]_vars

C6_Witness ==
    \E f \in FlowIds :
      /\ tasks[f].pc = "sleep"
      /\ tasks[f].resp = Resp("Error", <<"Error:">> \o NO_AUTHED_OIDC \o <<"yet">>)
      /\ Status.state_msg = WAITING_ACCOUNT_AUTH
      /\ Status.failed_msg = EMPTY

\* C7: during the auth call no url is set and no query was made; when auth
\* fails (Error, unrecognized envelope, Err), the task ends with state_msg
\* REQUESTING_ACCOUNT_AUTH, failed_msg the error text ("Invalid auth
\* response" for the unrecognized envelope), no url, no query made, and
\* `running` false once it has ended.
C7_AuthFailureEndsFlow ==
    \A f \in FlowIds :
      f = cur =>
        /\ tasks[f].pc \in {"auth", "auth_match"}
             => (Status.url = None /\ ~tasks[f].polled)
        /\ (tasks[f].pc \in {"after_task", "done"} /\ tasks[f].code_url = None)
             => /\ tasks[f].resp.kind \in {"Error", "Other", "Err"}
                /\ Status.state_msg = REQUESTING_ACCOUNT_AUTH
                /\ Status.failed_msg =
                     (IF tasks[f].resp.kind = "Other" THEN INVALID_AUTH_RESPONSE
                      ELSE tasks[f].resp.val)
                /\ Status.url = None
                /\ Status.auth_body = None
                /\ ~tasks[f].polled
                /\ (Exited(f) => ~session.running)
        /\ tasks[f].polled => tasks[f].code_url # None

C7_Witness ==
    \E f \in FlowIds :
      /\ f = cur /\ Exited(f) /\ tasks[f].resp.kind = "Other"
      /\ Status.failed_msg = INVALID_AUTH_RESPONSE /\ ~session.running

\* C8: from the reset of a second (or later) flow on, each of state_msg,
\* failed_msg, code_url and auth_body was last written by that flow, and no
\* task of an earlier flow is alive to write.
C8_SecondFlowSupersedes ==
    cur >= 2 =>
      /\ \A k \in DOMAIN writer : writer[k] = cur
      /\ \A f \in FlowIds : f < cur => Exited(f)

C8_Witness ==
    /\ cur >= 2 /\ Alive(cur) /\ snapshot # None
    /\ snapshot[1].state_msg = WAITING_ACCOUNT_AUTH /\ snapshot[1].url # None

\* C9: in every state, if code_url is present then state_msg is not
\* REQUESTING_ACCOUNT_AUTH.
C9_UrlOnlyPastRequesting ==
    Status.url # None => Status.state_msg # REQUESTING_ACCOUNT_AUTH

C9_Witness == cur >= 2 /\ Status.url # None /\ writer.code_url = cur

\* C10: after auth returned a handle and code_url was stored, and until the
\* flow ends, get_result shows WAITING_ACCOUNT_AUTH, an empty failed_msg and
\* the url of that handle; every query carries the code of that handle; and a
\* task that ends on a query answered with an AuthBody leaves
\* LOGIN_ACCOUNT_AUTH, an empty failed_msg, the url, and that AuthBody
\* (the same access_token, type and user data) as the result.
C10_HappyPath ==
    \A f \in FlowIds :
      f = cur =>
        /\ tasks[f].pc \in {"while", "query", "query_match", "sleep", "save_token",
                            "save_user", "set_login", "check_timeout"}
             => /\ Status.state_msg = WAITING_ACCOUNT_AUTH
                /\ Status.failed_msg = EMPTY
                /\ Status.url = Some(UrlToString(tasks[f].code_url[1].url))
                /\ Status.auth_body = None
        /\ tasks[f].polled => tasks[f].query_code = tasks[f].code_url[1].code
        /\ (/\ tasks[f].pc \in {"after_task", "done"}
            /\ tasks[f].polled /\ tasks[f].resp.kind = "Data")
             => /\ Status.state_msg = LOGIN_ACCOUNT_AUTH
                /\ Status.failed_msg = EMPTY
                /\ Status.url = Some(UrlToString(tasks[f].code_url[1].url))
                /\ Status.auth_body # None
                /\ Data(Status.auth_body[1]) = Data(tasks[f].resp.val)
                /\ Status.auth_body[1].access_token = tasks[f].resp.val.access_token

C10_Witness ==
    \E f \in FlowIds :
      /\ f = cur /\ Exited(f) /\ tasks[f].resp.kind = "Data"
      /\ Status.state_msg = LOGIN_ACCOUNT_AUTH
      /\ Status.auth_body # None
      /\ Status.auth_body[1].access_token = "tok2"

\* C11: a UserPayload serialized with ser_store_local set emits exactly the
\* fields name, status, in that order; with it unset exactly name, email,
\* note, status, info, is_admin, third_auth_type; each field carries the
\* record's value (the status as its i64 discriminant), ser_store_local is
\* never emitted, and the minimal shape is the full shape of the same record
\* cut down to name and status.
FieldNames(fields) == [i \in 1..Len(fields) |-> fields[i][1]]
FieldValues(fields) == [i \in 1..Len(fields) |-> fields[i][2]]
Discriminant(u) ==
    IF u.status = "Disabled" THEN 0 ELSE IF u.status = "Normal" THEN 1 ELSE -1

C11_TwoShapes ==
    ser_out # None =>
      LET u == ser_out[1].user
          out == ser_out[1].fields
          full == serialize([u EXCEPT !.ser_store_local = FALSE])
      IN /\ \A i \in 1..Len(out) : out[i][1] # "ser_store_local"
         /\ u.ser_store_local =>
              /\ FieldNames(out) = <<"name", "status">>
              /\ FieldValues(out) = <<u.name, Discriminant(u)>>
              /\ out = <<full[1], full[4]>>
         /\ ~u.ser_store_local =>
              /\ FieldNames(out) = <<"name", "email", "note", "status", "info",
                                     "is_admin", "third_auth_type">>
              /\ FieldValues(out) = <<u.name, u.email, u.note, Discriminant(u),
                                      u.info, u.is_admin, u.third_auth_type>>

C11_Witness ==
    /\ ser_out # None /\ ser_out[1].user.ser_store_local
    /\ ser_out[1].user.email # None
    /\ Len(ser_out[1].fields) = 2
    /\ ser_user # None /\ ~ser_user[1].ser_store_local

\* C12: in every state, the UserPayload inside the auth_body of the session
\* (and so of what get_result returns) has ser_store_local false and
\* serializes in the full, seven-field shape.
C12_StoreLocalNeverLeaks ==
    Status.auth_body # None =>
      /\ ~Status.auth_body[1].user.ser_store_local
      /\ Len(serialize(Status.auth_body[1].user)) = 7

\* C13: a step that returns an AuthResult changes nothing in the session,
\* LocalConfig or the tasks, and returns the fields of the session; a step
\* that clears keep_querying changes no other field of the session; and
\* auth_cancel leaves keep_querying false, the rest of the session as it
\* was, so that a second auth_cancel changes nothing.
SessionBut(s, flag) == [s EXCEPT !.keep_querying = flag]

C13_ForegroundFrame ==
    [][/\ snapshot' # None =>
            /\ session' = session /\ local_config' = local_config /\ tasks' = tasks
            /\ snapshot'[1].state_msg = session.state_msg
            /\ snapshot'[1].failed_msg = session.failed_msg
            /\ snapshot'[1].auth_body = session.auth_body
            /\ (snapshot'[1].url = None) <=> (session.code_url = None)
       /\ (session.keep_querying /\ ~session'.keep_querying)
            => session' = SessionBut(session, FALSE)
       /\ (auth_cancel \/ \E c \in CallerIds : caller_auth_cancel(c))
            => /\ session' = SessionBut(session, FALSE)
               /\ (~session.keep_querying => session' = session)
               /\ local_config' = local_config]_vars

C13_Witness ==
    \E f \in FlowIds :
      /\ f = cur /\ Alive(f) /\ tasks[f].cancelled /\ ~session.keep_querying
      /\ session.running /\ snapshot # None /\ snapshot[1].url # None

\* C14: under fair scheduling every auth_task that is alive ends, with
\* `running` false once it has; and every call of account_auth that has
\* been entered gets past wait_stop_querying, spawns its task and returns.
C14_EveryTaskEnds ==
    /\ \A f \in FlowIds : Alive(f) ~> (Exited(f) /\ (f = cur => ~session.running))
    /\ \A c \in CallerIds : (cpc[c] \notin {"idle", "off"}) ~> (cpc[c] = "idle")

C14_Witness ==
    \E c \in CallerIds, f \in FlowIds :
      /\ cpc[c] = "wait_stop_querying" /\ session.running
      /\ tasks[f].pc = "query" /\ ~session.keep_querying

\* C15: the step of a task that handles a query answered with a transport or
\* parse error, or with an unrecognized envelope, changes nothing in the
\* session and takes the task to its sleep; and a task whose last query was
\* answered so ends only through the check after the loop: by timeout, or
\* with keep_querying found false.
C15_TransientPollErrors ==
    [][\A f \in FlowIds :
         /\ (/\ tasks[f].pc = "query_match"
             /\ tasks[f].resp.kind \in {"Other", "Err"}
             /\ tasks'[f].pc # "query_match")
              => (tasks'[f].pc = "sleep" /\ session' = session)
         /\ (/\ tasks[f].pc # "after_task" /\ tasks'[f].pc = "after_task"
             /\ tasks[f].polled /\ tasks[f].resp.kind \in {"Other", "Err"})
              => /\ tasks[f].pc = "check_timeout"
                 /\ tasks'[f].ret \in {"timeout", "stopped"}
                 /\ (tasks'[f].ret = "timeout")
                      <=> (session'.failed_msg = TIMEOUT_MSG)
                 /\ (tasks'[f].ret = "stopped")
                      => (~session.keep_querying /\ session' = session)]_vars

C15_Witness ==
    \E f \in FlowIds :
      /\ f = cur /\ Exited(f) /\ tasks[f].polled /\ tasks[f].resp.kind = "Err"
      /\ tasks[f].ret = "timeout" /\ Status.failed_msg = TIMEOUT_MSG

\* C16: a query answered with a provider error whose text does not contain
\* "No authed oidc is found" is the last query of the task: the task goes
\* from the match straight to its end, leaving state_msg
\* WAITING_ACCOUNT_AUTH, failed_msg that text and no auth_body; the check
\* after the loop is not passed.
C16_FatalPollError ==
    \A f \in FlowIds :
      (/\ f = cur /\ tasks[f].polled /\ tasks[f].resp.kind = "Error"
       /\ ~contains(tasks[f].resp.val, NO_AUTHED_OIDC))
        => /\ tasks[f].pc \in {"query_match", "after_task", "done"}
           /\ tasks[f].pc \in {"after_task", "done"}
                => /\ tasks[f].ret = "query_failed"
                   /\ Status.state_msg = WAITING_ACCOUNT_AUTH
                   /\ Status.failed_msg = tasks[f].resp.val
                   /\ Status.auth_body = None

C16_Witness ==
    \E f \in FlowIds :
      /\ f = cur /\ Exited(f) /\ tasks[f].polled
      /\ tasks[f].resp = Resp("Error", <<"No", "authed", "oidc">>)
      /\ tasks[f].elapsed >= session.query_timeout
      /\ Status.failed_msg = <<"No", "authed", "oidc">>

\* C17: in a step that is not the reset of a new flow, state_msg does not
\* move backwards along Requesting, Waiting, Login; and if state_msg is
\* LOGIN_ACCOUNT_AUTH or failed_msg is not empty, the step leaves state_msg,
\* failed_msg and code_url as they are.
Rank(state_msg) ==
    IF state_msg = REQUESTING_ACCOUNT_AUTH THEN 0
    ELSE IF state_msg = WAITING_ACCOUNT_AUTH THEN 1 ELSE 2

C17_PhaseAdvancesOutcomeStays ==
    [][cur' = cur =>
         /\ Rank(session'.state_msg) >= Rank(session.state_msg)
         /\ (session.state_msg = LOGIN_ACCOUNT_AUTH \/ session.failed_msg # EMPTY)
              => /\ session'.state_msg = session.state_msg
                 /\ session'.failed_msg = session.failed_msg
                 /\ session'.code_url = session.code_url]_vars

C17_Witness ==
    \E f \in FlowIds :
      /\ f = cur /\ Exited(f) /\ tasks[f].ret = "query_failed"
      /\ tasks[f].elapsed >= session.query_timeout
      /\ session.failed_msg = RATE_LIMITED /\ ~session.keep_querying

\* C18: a task begins at most one query with keep_querying already false
\* (the one whose while condition was read before auth_cancel), and a task
\* whose call of Self::auth was in flight when auth_cancel came makes no
\* query at all.
C18_CancelSeenAtNextCheck ==
    \A f \in FlowIds :
      /\ tasks[f].late_polls <= 1
      /\ tasks[f].cancelled_in_auth => ~tasks[f].polled

C18_Witness ==
    \E f \in FlowIds :
      /\ Exited(f) /\ tasks[f].late_polls = 1 /\ tasks[f].cancelled
      /\ tasks[f].resp.kind = "Error" /\ tasks[f].ret = "stopped"

\* C19: with two threads calling account_auth, at most one auth_task is
\* alive at any time, and `running` is true whenever a task is alive.
C19_SingleFlightTwoCallers ==
    /\ Cardinality({f \in FlowIds : Alive(f)}) <= 1
    /\ (\E f \in FlowIds : Alive(f)) => session.running

\* C20: LocalConfig changes only in a step of a task started with
\* remember_me whose query was answered with Data, and then by access_token
\* becoming the token of that answer or user_info becoming the {name, status}
\* form of its user; such a task that reaches LOGIN has written
\* access_token, then user_info, and nothing else; a task started without
\* remember_me, and a task that ends otherwise than by login, has written
\* nothing.
C20_SavedOnlyDelta ==
    local_config' # local_config =>
      \E f \in FlowIds :
        LET t == tasks[f] IN
        /\ t.remember_me /\ t.polled /\ t.resp.kind = "Data"
        /\ \/ /\ t.pc = "save_token"
              /\ local_config' = [local_config EXCEPT
                                    !.access_token = t.resp.val.access_token]
           \/ /\ t.pc = "save_user"
              /\ local_config' = [local_config EXCEPT
                                    !.user_info = SerializeMinimal(t.resp.val.user)]
              /\ FieldNames(local_config'.user_info) = <<"name", "status">>

C20_SavedOnlyState ==
    \A f \in FlowIds :
      LET t == tasks[f] IN
      /\ t.saved \in {<<>>, <<"access_token">>, <<"access_token", "user_info">>}
      /\ t.saved # <<>> => (t.remember_me /\ t.polled /\ t.resp.kind = "Data")
      /\ ~t.remember_me => t.saved = <<>>
      /\ t.ret \in {"auth_failed", "query_failed", "timeout", "stopped"}
           => t.saved = <<>>
      /\ (t.remember_me /\ t.pc \in {"set_login", "store_auth_body"})
           => /\ t.saved = <<"access_token", "user_info">>
              /\ local_config.user_info # <<>>
              /\ FieldNames(local_config.user_info) = <<"name", "status">>

C20_SavedOnlyByRememberedLogin ==
    []C20_SavedOnlyState /\ [][C20_SavedOnlyDelta]_vars

C20_Witness ==
    \E f \in FlowIds :
      /\ tasks[f].remember_me /\ tasks[f].pc = "store_auth_body"
      /\ ~tasks[f].resp.val.user.ser_store_local
      /\ tasks[f].saved = <<"access_token", "user_info">>
      /\ local_config =
           [access_token |-> tasks[f].resp.val.access_token,
            user_info |-> SerializeMinimal(tasks[f].resp.val.user)]

====
